---- MODULE Spec2Model ----
(***************************************************************************)
(* The hierarchical memory of the agent-systems notebook: MemoryEntry,     *)
(* MemoryLayer (add, _evict) and HierarchicalMemory (store), with the      *)
(* retrieval operations the specification adds to them.                    *)
(*                                                                         *)
(* Spec is the notebook's code alone, SpecRetrieve adds retrieve_by, and   *)
(* SpecLayer drives one MemoryLayer built by its caller.                   *)
(*                                                                         *)
(* Floats are modelled as records: [k |-> "fin", v |-> n] is the finite    *)
(* value n/100, [k |-> "inf", v |-> 1 or -1] the two infinities and        *)
(* [k |-> "nan", v |-> 0] a NaN, with IEEE-754 comparison and product.     *)
(* list.sort is modelled as CPython 3.11 runs it on a list shorter than    *)
(* 64 elements: count_run, then binarysort.                                *)
(***************************************************************************)
EXTENDS Integers, Sequences, FiniteSets

VARIABLES
    working_memory,   \* HierarchicalMemory.working_memory : MemoryLayer
    short_term,       \* HierarchicalMemory.short_term     : MemoryLayer
    long_term,        \* HierarchicalMemory.long_term      : MemoryLayer
    layer,            \* a MemoryLayer constructed on its own by a caller
    clock,            \* number of MemoryEntry objects constructed so far
    before,           \* history: the layers as they were when the last call began
    outcome,          \* history: the last call, its arguments and how it ended
    thread,           \* each thread's call in progress on the memory
    lock,             \* each layer's mutual-exclusion scope: its holder
    hits,             \* history: per entry, the retrievals that matched it
    run_status,       \* the remote service's status of each polled run
    poll,             \* each run-polling loop: its position and what it saw
    retry             \* create_thread_with_retry: its position and history

memoryVars == <<working_memory, short_term, long_term, layer, clock, before, outcome>>
threadVars == <<thread, lock, hits>>
assistantVars == <<run_status, poll, retry>>
vars == <<memoryVars, threadVars, assistantVars>>

----------------------------------------------------------------------------
(* Bounds of the model. *)

\* HierarchicalMemory.__init__ builds the layers with capacities 5, 50 and
\* 1000; the model keeps the three layers and scales their capacities.
WorkingCapacity == 2
ShortTermCapacity == 2
LongTermCapacity == 3
\* Largest capacity a caller gives a MemoryLayer built on its own.
MaxCapacity == 3
\* Number of MemoryEntry objects constructed in one behaviour.
MaxEntries == 5
\* Largest access_count an entry reaches in one behaviour.
MaxAccess == 2
\* Number of MemoryEntry objects constructed by the concurrent threads.
ThreadEntries == 3
\* Largest max_retries a caller passes to create_thread_with_retry.
MaxRetries == 4

----------------------------------------------------------------------------
(* Floats. *)

Fin(n) == [k |-> "fin", v |-> n]
NaN == [k |-> "nan", v |-> 0]
PosInf == [k |-> "inf", v |-> 1]
NegInf == [k |-> "inf", v |-> -1]

IsFinite(a) == a.k = "fin"

\* a < b on floats: false as soon as one side is a NaN.
FloatLt(a, b) ==
    IF a.k = "nan" \/ b.k = "nan" THEN FALSE
    ELSE IF a.k = "fin" /\ b.k = "fin" THEN a.v < b.v
    ELSE IF a.k = "inf" /\ b.k = "inf" THEN a.v < b.v
    ELSE IF a.k = "inf" THEN a.v < 0
    ELSE b.v > 0

\* a > b on floats.
FloatGt(a, b) == FloatLt(b, a)

\* a == b and a <= b on floats: a NaN equals nothing, itself included.
FloatEq(a, b) == a.k # "nan" /\ b.k # "nan" /\ a = b
FloatLe(a, b) == FloatLt(a, b) \/ FloatEq(a, b)

\* a * n for a float a and an int n >= 0: inf * 0 is a NaN.
FloatMulInt(a, n) ==
    IF a.k = "nan" THEN NaN
    ELSE IF a.k = "inf" THEN (IF n = 0 THEN NaN ELSE a)
    ELSE Fin(a.v * n)

\* The literals 0.8 and 0.5 of store, in hundredths.
WorkingThreshold == 80
ShortTermThreshold == 50

----------------------------------------------------------------------------
(* MemoryEntry. The content is an opaque payload no code path reads; the   *)
(* entry's timestamp is the reading of the clock at construction, which    *)
(* here counts constructions, so it also tells the objects apart.          *)

\* MemoryEntry.__init__ with access_count starting at 1.
MemoryEntry_Accessed(importance, now) ==
    [importance |-> importance, timestamp |-> now, access_count |-> 1]

MemoryEntry(importance, now) ==
    [importance |-> importance, timestamp |-> now, access_count |-> 0]

\* The sort key of _evict: lambda x: x.importance * x.access_count
Score(x) == FloatMulInt(x.importance, x.access_count)

----------------------------------------------------------------------------
(* list.sort(key = Score) for a list of fewer than 64 elements.            *)

KeyLt(x, y) == FloatLt(Score(x), Score(y))

Reverse(s) == [i \in 1..Len(s) |-> s[Len(s) + 1 - i]]

\* count_run: the length of the run that starts the list, s[1..i] being in
\* it already; a descending run is strictly descending.
RECURSIVE RunEnd(_, _, _)
RunEnd(s, i, descending) ==
    IF i = Len(s) THEN i
    ELSE IF descending
         THEN (IF KeyLt(s[i + 1], s[i]) THEN RunEnd(s, i + 1, descending) ELSE i)
         ELSE (IF KeyLt(s[i + 1], s[i]) THEN i ELSE RunEnd(s, i + 1, descending))

\* binarysort's search for the place of pivot in s[l..r-1] (a do-while).
RECURSIVE BinarySearch(_, _, _, _)
BinarySearch(s, pivot, l, r) ==
    LET p == l + ((r - l) \div 2)
        l2 == IF KeyLt(pivot, s[p]) THEN l ELSE p + 1
        r2 == IF KeyLt(pivot, s[p]) THEN p ELSE r
    IN  IF l2 < r2 THEN BinarySearch(s, pivot, l2, r2) ELSE l2

\* binarysort: s[1..start-1] is sorted; insert s[start], s[start+1], ...
RECURSIVE BinarySort(_, _)
BinarySort(s, start) ==
    IF start > Len(s) THEN s
    ELSE LET pivot == s[start]
             l == BinarySearch(s, pivot, 1, start)
             moved == SubSeq(s, 1, l - 1) \o <<pivot>> \o SubSeq(s, l, start - 1)
                      \o SubSeq(s, start + 1, Len(s))
         IN  BinarySort(moved, start + 1)

ListSort(s) ==
    IF Len(s) < 2 THEN s
    ELSE LET descending == KeyLt(s[2], s[1])
             n == RunEnd(s, 2, descending)
             run == IF descending
                    THEN Reverse(SubSeq(s, 1, n)) \o SubSeq(s, n + 1, Len(s))
                    ELSE s
         IN  BinarySort(run, n + 1)

----------------------------------------------------------------------------
(* MemoryLayer. *)

MemoryLayer(capacity) ==
    [constructed |-> TRUE, capacity |-> capacity, memories |-> <<>>]

\* No MemoryLayer object yet.
NoLayer == [constructed |-> FALSE, capacity |-> 0, memories |-> <<>>]

\* _evict on the list: sort in place by score, then pop(0), which raises
\* IndexError on an empty list.
_evict(memories) ==
    LET sorted == ListSort(memories)
    IN  IF sorted = <<>>
        THEN [memories |-> sorted, raised |-> "IndexError"]
        ELSE [memories |-> Tail(sorted), raised |-> "none"]

\* add without its capacity test: the entry is appended, nothing is evicted.
add_NoEvict(self, entry) ==
    [self |-> [self EXCEPT !.memories = Append(self.memories, entry)],
     raised |-> "none"]

\* add with > in place of >= in its capacity test.
add_OffByOne(self, entry) ==
    IF Len(self.memories) > self.capacity
    THEN LET e == _evict(self.memories)
         IN  IF e.raised # "none"
             THEN [self |-> [self EXCEPT !.memories = e.memories], raised |-> e.raised]
             ELSE [self |-> [self EXCEPT !.memories = Append(e.memories, entry)],
                   raised |-> "none"]
    ELSE [self |-> [self EXCEPT !.memories = Append(self.memories, entry)],
          raised |-> "none"]

\* add: the layer after the call, and the exception that left it if any.
add(self, entry) ==
    IF Len(self.memories) >= self.capacity
    THEN LET e == _evict(self.memories)
         IN  IF e.raised # "none"
             THEN [self |-> [self EXCEPT !.memories = e.memories], raised |-> e.raised]
             ELSE [self |-> [self EXCEPT !.memories = Append(e.memories, entry)],
                   raised |-> "none"]
    ELSE [self |-> [self EXCEPT !.memories = Append(self.memories, entry)],
          raised |-> "none"]

----------------------------------------------------------------------------
(* The processes around the memory, at rest. *)

AllLayers == {"working_memory", "short_term", "long_term"}

Threads == {"t1", "t2"}
NoEntry == [importance |-> NaN, timestamp |-> -1, access_count |-> 0]
IdleThread == [pc |-> "idle", op |-> "none", layer |-> "none", entry |-> NoEntry,
               predicate |-> "none", seen |-> <<>>]

\* The two run-polling loops of the assistants notebook.
Loops == {"manage_conversation", "wait_for_response"}
IdlePoll == [pc |-> "idle", seen |-> "none", result |-> "none"]

IdleRetry == [pc |-> "idle", max_retries |-> 0, attempt |-> 0, log |-> <<>>,
              slept |-> <<>>, result |-> [kind |-> "none", of |-> 0]]

\* No thread, polling loop or retry loop has started.
AtRest ==
    /\ thread = [t \in Threads |-> IdleThread]
    /\ lock = [name \in AllLayers |-> "free"]
    /\ hits = <<>>
    /\ run_status = [l \in Loops |-> "queued"]
    /\ poll = [l \in Loops |-> IdlePoll]
    /\ retry = IdleRetry

----------------------------------------------------------------------------
(* HierarchicalMemory. *)

\* store with >= in place of > in both comparisons.
Route_NonStrict(importance) ==
    IF FloatGt(importance, Fin(WorkingThreshold))
       \/ FloatEq(importance, Fin(WorkingThreshold)) THEN "working_memory"
    ELSE IF FloatGt(importance, Fin(ShortTermThreshold))
            \/ FloatEq(importance, Fin(ShortTermThreshold)) THEN "short_term"
    ELSE "long_term"

\* The branch store takes: the layer its if/elif/else chain adds to.
Route(importance) ==
    IF FloatGt(importance, Fin(WorkingThreshold)) THEN "working_memory"
    ELSE IF FloatGt(importance, Fin(ShortTermThreshold)) THEN "short_term"
    ELSE "long_term"

Snapshot ==
    [working_memory |-> working_memory, short_term |-> short_term,
     long_term |-> long_term, layer |-> layer]

NoCall == [op |-> "none", importance |-> NaN, predicate |-> "none", layers |-> {},
           raised |-> "none", returned |-> <<>>]

\* The importances callers store: both thresholds, one value on each side
\* of them, and the three non-finite floats.
Importances == {Fin(50), Fin(80), Fin(81), NaN, PosInf, NegInf}

\* store with `if` in place of `elif`: an importance above 0.8 passes both
\* tests and the entry is added to working memory and to short-term.
Branch_NoElif(name, importance, self, entry) ==
    IF \/ name = "working_memory" /\ FloatGt(importance, Fin(WorkingThreshold))
       \/ name = "short_term" /\ FloatGt(importance, Fin(ShortTermThreshold))
       \/ name = "long_term" /\ ~FloatGt(importance, Fin(ShortTermThreshold))
    THEN add(self, entry)
    ELSE [self |-> self, raised |-> "none"]

\* One branch of store's if/elif/else chain, seen from the layer called
\* name: the branch taken adds the entry to its layer, the others leave theirs.
Branch(name, importance, self, entry) ==
    IF Route(importance) = name THEN add(self, entry)
    ELSE [self |-> self, raised |-> "none"]

\* store(content, importance)
store(importance) ==
    /\ clock < MaxEntries
    /\ LET entry == MemoryEntry(importance, clock)
           w == Branch("working_memory", importance, working_memory, entry)
           s == Branch("short_term", importance, short_term, entry)
           g == Branch("long_term", importance, long_term, entry)
           raised == IF w.raised # "none" THEN w.raised
                     ELSE IF s.raised # "none" THEN s.raised ELSE g.raised
       IN  /\ working_memory' = w.self
           /\ short_term' = s.self
           /\ long_term' = g.self
           /\ outcome' = [NoCall EXCEPT !.op = "store", !.importance = importance,
                                        !.raised = raised]
    /\ clock' = clock + 1
    /\ before' = Snapshot
    /\ UNCHANGED <<layer, threadVars, assistantVars>>

\* HierarchicalMemory.__init__
Init ==
    /\ working_memory = MemoryLayer(WorkingCapacity)
    /\ short_term = MemoryLayer(ShortTermCapacity)
    /\ long_term = MemoryLayer(LongTermCapacity)
    /\ layer = NoLayer
    /\ clock = 0
    /\ before = [working_memory |-> MemoryLayer(WorkingCapacity),
                 short_term |-> MemoryLayer(ShortTermCapacity),
                 long_term |-> MemoryLayer(LongTermCapacity),
                 layer |-> NoLayer]
    /\ outcome = NoCall
    /\ AtRest

Next == \E importance \in Importances : store(importance)

Spec == Init /\ [][Next]_vars

----------------------------------------------------------------------------
(* Retrieval. The notebook stops at the heading "2.2 Memory Retrieval and  *)
(* Indexing"; touch, retrieve and retrieve_by are modelled from the        *)
(* specification's sections 4.1 to 4.3.                                    *)

\* touch(): increments the access count by 1 and nothing else.
touch(entry) == [entry EXCEPT !.access_count = @ + 1]

\* The predicates callers pass: lambda e: False, lambda e: True and
\* lambda e: e.importance > 0.5
Predicates == {"none", "all", "important"}

Matches(predicate, entry) ==
    CASE predicate = "none" -> FALSE
      [] predicate = "all" -> TRUE
      [] predicate = "important" ->
            FloatGt(entry.importance, Fin(ShortTermThreshold))

\* The entries of a list that satisfy the predicate, in list order.
RECURSIVE Filter(_, _)
Filter(memories, predicate) ==
    IF memories = <<>> THEN <<>>
    ELSE (IF Matches(predicate, Head(memories)) THEN <<Head(memories)>> ELSE <<>>)
         \o Filter(Tail(memories), predicate)

\* retrieve(predicate): scan the resident entries in list order, touch the
\* matching ones and return them.
retrieve(self, predicate) ==
    LET touched == [i \in 1..Len(self.memories) |->
                       IF Matches(predicate, self.memories[i])
                       THEN touch(self.memories[i]) ELSE self.memories[i]]
    IN  [self |-> [self EXCEPT !.memories = touched],
         returned |-> Filter(touched, predicate)]

\* The layer selections callers pass for `layers`; the selected layers are
\* scanned in the fixed order working, short-term, long-term.
LayerSelections == {AllLayers, {"working_memory", "short_term"}, {"long_term"}}

\* Some entry the call would touch has reached the model's access bound.
AtAccessBound(self, predicate) ==
    \E i \in 1..Len(self.memories) :
        Matches(predicate, self.memories[i]) /\ self.memories[i].access_count >= MaxAccess

\* retrieve_by(predicate, layers)
retrieve_by(predicate, layers) ==
    LET skip(l) == [self |-> l, returned |-> <<>>]
        w == IF "working_memory" \in layers THEN retrieve(working_memory, predicate)
             ELSE skip(working_memory)
        s == IF "short_term" \in layers THEN retrieve(short_term, predicate)
             ELSE skip(short_term)
        g == IF "long_term" \in layers THEN retrieve(long_term, predicate)
             ELSE skip(long_term)
    IN  /\ ~("working_memory" \in layers /\ AtAccessBound(working_memory, predicate))
        /\ ~("short_term" \in layers /\ AtAccessBound(short_term, predicate))
        /\ ~("long_term" \in layers /\ AtAccessBound(long_term, predicate))
        /\ working_memory' = w.self
        /\ short_term' = s.self
        /\ long_term' = g.self
        /\ outcome' = [NoCall EXCEPT !.op = "retrieve_by", !.predicate = predicate,
                                     !.layers = layers,
                                     !.returned = w.returned \o s.returned \o g.returned]
        /\ before' = Snapshot
        /\ UNCHANGED <<layer, clock, threadVars, assistantVars>>

\* The importances stored between retrievals: one that "important" matches
\* and one that it does not.
RetrieveImportances == {Fin(50), Fin(81)}

NextRetrieve ==
    \/ \E importance \in RetrieveImportances : store(importance)
    \/ \E predicate \in Predicates, layers \in LayerSelections :
          retrieve_by(predicate, layers)

SpecRetrieve == Init /\ [][NextRetrieve]_vars

----------------------------------------------------------------------------
(* A MemoryLayer used on its own: constructed by the caller with a         *)
(* capacity of the caller's choice, then filled and read.                  *)

\* The capacities callers construct a layer with.
LayerCapacities == (0 - 1)..MaxCapacity

\* The importances of the entries callers add to the layer.
LayerImportances == {Fin(20), Fin(40), Fin(90), NaN}

\* layer = MemoryLayer(capacity)
Construct(capacity) ==
    /\ ~layer.constructed
    /\ layer' = MemoryLayer(capacity)
    /\ outcome' = [NoCall EXCEPT !.op = "MemoryLayer"]
    /\ before' = Snapshot
    /\ UNCHANGED <<working_memory, short_term, long_term, clock, threadVars,
                   assistantVars>>

\* layer.add(MemoryEntry(content, importance))
LayerAdd(importance) ==
    /\ layer.constructed
    /\ clock < MaxEntries
    /\ LET r == add(layer, MemoryEntry(importance, clock))
       IN  /\ layer' = r.self
           /\ outcome' = [NoCall EXCEPT !.op = "add", !.importance = importance,
                                        !.raised = r.raised]
    /\ clock' = clock + 1
    /\ before' = Snapshot
    /\ UNCHANGED <<working_memory, short_term, long_term, threadVars, assistantVars>>

\* layer.retrieve(predicate)
LayerRetrieve(predicate) ==
    /\ layer.constructed
    /\ ~AtAccessBound(layer, predicate)
    /\ LET r == retrieve(layer, predicate)
       IN  /\ layer' = r.self
           /\ outcome' = [NoCall EXCEPT !.op = "retrieve", !.predicate = predicate,
                                        !.returned = r.returned]
    /\ before' = Snapshot
    /\ UNCHANGED <<working_memory, short_term, long_term, clock, threadVars,
                   assistantVars>>

InitLayer ==
    /\ working_memory = NoLayer
    /\ short_term = NoLayer
    /\ long_term = NoLayer
    /\ layer = NoLayer
    /\ clock = 0
    /\ before = [working_memory |-> NoLayer, short_term |-> NoLayer,
                 long_term |-> NoLayer, layer |-> NoLayer]
    /\ outcome = NoCall
    /\ AtRest

NextLayer ==
    \/ \E capacity \in LayerCapacities : Construct(capacity)
    \/ \E importance \in LayerImportances : LayerAdd(importance)
    \/ \E predicate \in Predicates : LayerRetrieve(predicate)

SpecLayer == InitLayer /\ [][NextLayer]_vars

----------------------------------------------------------------------------
(* Threads on one HierarchicalMemory. store and retrieve run one statement *)
(* at a time: add's capacity test, _evict's sort and its pop, the append;  *)
(* retrieve's scan, which reads the access counts, and the write of the    *)
(* incremented counts. The specification's section 5 puts each layer's     *)
(* operations under that layer's own mutual-exclusion scope, which the     *)
(* notebook does not have: a thread takes the scope of the layer it works  *)
(* on before its first statement there and leaves it after its last.       *)

\* The list of the layer called name after the step, the others unchanged.
SetMemories(name, memories) ==
    /\ working_memory' = IF name = "working_memory"
                         THEN [working_memory EXCEPT !.memories = memories]
                         ELSE working_memory
    /\ short_term' = IF name = "short_term"
                     THEN [short_term EXCEPT !.memories = memories] ELSE short_term
    /\ long_term' = IF name = "long_term"
                    THEN [long_term EXCEPT !.memories = memories] ELSE long_term

\* store(content, importance) begins: the entry is constructed and the
\* branch chosen.
ThreadStore(t, importance) ==
    /\ thread[t].pc = "idle"
    /\ clock < ThreadEntries
    /\ thread' = [thread EXCEPT ![t] =
                     [IdleThread EXCEPT !.pc = "acquire", !.op = "store",
                                        !.layer = Route(importance),
                                        !.entry = MemoryEntry(importance, clock)]]
    /\ clock' = clock + 1
    /\ hits' = Append(hits, 0)
    /\ UNCHANGED <<working_memory, short_term, long_term, layer, before, outcome,
                   lock, assistantVars>>

\* The predicates the threads retrieve by: the ones some entry can match.
ThreadPredicates == Predicates \ {"none"}

\* retrieve(predicate) on the layer called name begins.
ThreadRetrieve(t, name, predicate) ==
    /\ thread[t].pc = "idle"
    /\ thread' = [thread EXCEPT ![t] =
                     [IdleThread EXCEPT !.pc = "acquire", !.op = "retrieve",
                                        !.layer = name, !.predicate = predicate]]
    /\ UNCHANGED <<memoryVars, lock, hits, assistantVars>>

\* A scope can be entered when no thread is in it.
CanAcquire(holder) == holder = "free"

\* The thread enters the scope of its layer.
Acquire(t) ==
    /\ thread[t].pc = "acquire"
    /\ CanAcquire(lock[thread[t].layer])
    /\ lock' = [lock EXCEPT ![thread[t].layer] = t]
    /\ thread' = [thread EXCEPT ![t].pc = IF thread[t].op = "store" THEN "test"
                                          ELSE "scan"]
    /\ UNCHANGED <<memoryVars, hits, assistantVars>>

\* add's test with > in place of >=.
IsFull_OffByOne(self) == Len(self.memories) > self.capacity

\* if len(self.memories) >= self.capacity
IsFull(self) == Len(self.memories) >= self.capacity

\* add: the capacity test.
AddTest(t) ==
    /\ thread[t].pc = "test"
    /\ thread' = [thread EXCEPT ![t].pc = IF IsFull(Snapshot[thread[t].layer])
                                          THEN "sort" ELSE "append"]
    /\ UNCHANGED <<memoryVars, lock, hits, assistantVars>>

\* _evict: self.memories.sort(key=...)
AddSort(t) ==
    /\ thread[t].pc = "sort"
    /\ SetMemories(thread[t].layer, ListSort(Snapshot[thread[t].layer].memories))
    /\ thread' = [thread EXCEPT ![t].pc = "pop"]
    /\ UNCHANGED <<layer, clock, before, outcome, lock, hits, assistantVars>>

\* _evict: self.memories.pop(0); on an empty list IndexError ends the call.
AddPop(t) ==
    /\ thread[t].pc = "pop"
    /\ LET memories == Snapshot[thread[t].layer].memories
       IN  IF memories = <<>>
           THEN /\ thread' = [thread EXCEPT ![t].pc = "release"]
                /\ UNCHANGED <<working_memory, short_term, long_term>>
           ELSE /\ thread' = [thread EXCEPT ![t].pc = "append"]
                /\ SetMemories(thread[t].layer, Tail(memories))
    /\ UNCHANGED <<layer, clock, before, outcome, lock, hits, assistantVars>>

\* add: self.memories.append(entry)
AddAppend(t) ==
    /\ thread[t].pc = "append"
    /\ SetMemories(thread[t].layer,
                   Append(Snapshot[thread[t].layer].memories, thread[t].entry))
    /\ thread' = [thread EXCEPT ![t].pc = "release"]
    /\ UNCHANGED <<layer, clock, before, outcome, lock, hits, assistantVars>>

\* retrieve: the scan reads the matching entries and their access counts.
Scan(t) ==
    /\ thread[t].pc = "scan"
    /\ ~AtAccessBound(Snapshot[thread[t].layer], thread[t].predicate)
    /\ thread' = [thread EXCEPT ![t].pc = "touch",
                                ![t].seen = Filter(Snapshot[thread[t].layer].memories,
                                                   thread[t].predicate)]
    /\ UNCHANGED <<memoryVars, lock, hits, assistantVars>>

\* The access count the thread read for the entry of that timestamp.
SeenCount(seen, timestamp) ==
    (CHOOSE e \in {seen[i] : i \in 1..Len(seen)} : e.timestamp = timestamp).access_count

\* retrieve: touch() on each entry read, writing the count read plus 1.
Touch(t) ==
    /\ thread[t].pc = "touch"
    /\ LET seen == thread[t].seen
           read == {seen[i].timestamp : i \in 1..Len(seen)}
           memories == Snapshot[thread[t].layer].memories
       IN  /\ SetMemories(thread[t].layer,
                  [i \in 1..Len(memories) |->
                      IF memories[i].timestamp \in read
                      THEN [memories[i] EXCEPT !.access_count =
                               SeenCount(seen, memories[i].timestamp) + 1]
                      ELSE memories[i]])
           /\ hits' = [i \in 1..Len(hits) |->
                          IF (i - 1) \in read THEN hits[i] + 1 ELSE hits[i]]
    /\ thread' = [thread EXCEPT ![t].pc = "release"]
    /\ UNCHANGED <<layer, clock, before, outcome, lock, assistantVars>>

\* The thread leaves the scope of its layer and its call returns.
Release(t) ==
    /\ thread[t].pc = "release"
    /\ lock' = [lock EXCEPT ![thread[t].layer] = "free"]
    /\ thread' = [thread EXCEPT ![t] = IdleThread]
    /\ UNCHANGED <<memoryVars, hits, assistantVars>>

NextThreads ==
    \/ \E t \in Threads, importance \in RetrieveImportances : ThreadStore(t, importance)
    \/ \E t \in Threads, name \in AllLayers, predicate \in ThreadPredicates :
          ThreadRetrieve(t, name, predicate)
    \/ \E t \in Threads : Acquire(t)
    \/ \E t \in Threads : AddTest(t)
    \/ \E t \in Threads : AddSort(t)
    \/ \E t \in Threads : AddPop(t)
    \/ \E t \in Threads : AddAppend(t)
    \/ \E t \in Threads : Scan(t)
    \/ \E t \in Threads : Touch(t)
    \/ \E t \in Threads : Release(t)

SpecThreads == Init /\ [][NextThreads]_vars

----------------------------------------------------------------------------
(* AssistantManager.create_thread_with_retry, one step per position: the   *)
(* for loop's test, the remote call, the except clause and the sleep.      *)
(* retry.log is the outcome of each call of client.beta.threads.create()   *)
(* in order, retry.slept the durations of the sleeps in order, and         *)
(* retry.result says how the call ended and with which call's result or    *)
(* exception.                                                              *)

\* What the remote call does: it returns a thread, or raises an exception
\* that `except Exception` catches, or one that it does not catch.
Caught == {"APIError", "APITimeoutError"}
CreateOutcomes == {"ok", "KeyboardInterrupt"} \cup Caught

\* create_thread_with_retry(max_retries)
RetryCall(max_retries) ==
    /\ retry.pc = "idle"
    /\ retry' = [retry EXCEPT !.pc = "for", !.max_retries = max_retries]
    /\ UNCHANGED <<memoryVars, threadVars, run_status, poll>>

\* for attempt in range(max_retries): the next attempt, or the end of the
\* loop and of the function, which then returns None.
RetryFor ==
    /\ retry.pc = "for"
    /\ retry' = IF retry.attempt < retry.max_retries
                THEN [retry EXCEPT !.pc = "create"]
                ELSE [retry EXCEPT !.pc = "returned",
                                   !.result = [kind |-> "return None", of |-> 0]]
    /\ UNCHANGED <<memoryVars, threadVars, run_status, poll>>

\* try: return self.client.beta.threads.create()
RetryCreate(made) ==
    /\ retry.pc = "create"
    /\ LET log == Append(retry.log, made)
       IN  retry' =
             IF made = "ok"
             THEN [retry EXCEPT !.log = log, !.pc = "returned",
                                !.result = [kind |-> "return", of |-> Len(log)]]
             ELSE IF made \in Caught
             THEN [retry EXCEPT !.log = log, !.pc = "except"]
             ELSE [retry EXCEPT !.log = log, !.pc = "raised",
                                !.result = [kind |-> "raise", of |-> Len(log)]]
    /\ UNCHANGED <<memoryVars, threadVars, run_status, poll>>

\* if attempt == max_retries - 1 with == max_retries in its place.
IsLastAttempt_OffByOne(attempt, max_retries) == attempt = max_retries

\* if attempt == max_retries - 1
IsLastAttempt(attempt, max_retries) == attempt = max_retries - 1

\* except Exception as e: raise on the last attempt, else go on to sleep.
RetryExcept ==
    /\ retry.pc = "except"
    /\ retry' = IF IsLastAttempt(retry.attempt, retry.max_retries)
                THEN [retry EXCEPT !.pc = "raised",
                                   !.result = [kind |-> "raise", of |-> Len(retry.log)]]
                ELSE [retry EXCEPT !.pc = "sleep"]
    /\ UNCHANGED <<memoryVars, threadVars, run_status, poll>>

\* 2 ** attempt
Backoff(attempt) == 2 ^ attempt

\* time.sleep(2 ** attempt), then the loop's next iteration.
RetrySleep ==
    /\ retry.pc = "sleep"
    /\ retry' = [retry EXCEPT !.slept = Append(@, Backoff(retry.attempt)),
                              !.attempt = @ + 1, !.pc = "for"]
    /\ UNCHANGED <<memoryVars, threadVars, run_status, poll>>

NextRetry ==
    \/ \E max_retries \in 0..MaxRetries : RetryCall(max_retries)
    \/ RetryFor
    \/ \E made \in CreateOutcomes : RetryCreate(made)
    \/ RetryExcept
    \/ RetrySleep

SpecRetry == Init /\ [][NextRetry]_vars

----------------------------------------------------------------------------
(* The run-polling loops of manage_conversation and of                     *)
(* CustomerServiceAssistant.wait_for_response, one step per position: the  *)
(* retrieval of the run, the test of its status, the sleep, and the        *)
(* listing of the messages after the loop. Each loop polls a run of its    *)
(* own; the remote service moves a run from queued to running and from     *)
(* running to completed or failed, where it stays.                         *)

Terminal == {"completed", "failed"}

\* The service works on the run of loop l.
RunAdvance(l) ==
    /\ \/ run_status[l] = "queued" /\ run_status' = [run_status EXCEPT ![l] = "running"]
       \/ run_status[l] = "running"
          /\ \E s \in Terminal : run_status' = [run_status EXCEPT ![l] = s]
    /\ UNCHANGED <<memoryVars, threadVars, poll, retry>>

\* The run has been created and the function enters its while True loop.
PollStart(l) ==
    /\ poll[l].pc = "idle"
    /\ poll' = [poll EXCEPT ![l].pc = "retrieve"]
    /\ UNCHANGED <<memoryVars, threadVars, run_status, retry>>

\* run_status = client.beta.threads.runs.retrieve(...)
PollRetrieve(l) ==
    /\ poll[l].pc = "retrieve"
    /\ poll' = [poll EXCEPT ![l].pc = "test", ![l].seen = run_status[l]]
    /\ UNCHANGED <<memoryVars, threadVars, run_status, retry>>

\* wait_for_response's tests with the elif for 'failed' left out.
AfterTest_NoFailed(l, status) ==
    IF status = "completed" THEN "list" ELSE "sleep"

\* Where the tests of the status lead: manage_conversation breaks out of
\* the loop on 'completed' and sleeps otherwise; wait_for_response lists
\* the messages on 'completed', raises on 'failed' and sleeps otherwise.
AfterTest(l, status) ==
    IF l = "manage_conversation"
    THEN (IF status = "completed" THEN "list" ELSE "sleep")
    ELSE (IF status = "completed" THEN "list"
          ELSE IF status = "failed" THEN "raised"
          ELSE "sleep")

\* if run_status.status == 'completed': ... elif ... == 'failed': ...
PollTest(l) ==
    /\ poll[l].pc = "test"
    /\ LET to == AfterTest(l, poll[l].seen)
       IN  poll' = [poll EXCEPT ![l].pc = to,
                                ![l].result = IF to = "raised" THEN "AssistantError"
                                              ELSE @]
    /\ UNCHANGED <<memoryVars, threadVars, run_status, retry>>

\* time.sleep(1), time.sleep(0.5): then the loop's next iteration.
PollSleep(l) ==
    /\ poll[l].pc = "sleep"
    /\ poll' = [poll EXCEPT ![l].pc = "retrieve"]
    /\ UNCHANGED <<memoryVars, threadVars, run_status, retry>>

\* messages = client.beta.threads.messages.list(...) and the return.
PollList(l) ==
    /\ poll[l].pc = "list"
    /\ poll' = [poll EXCEPT ![l].pc = "returned", ![l].result = "messages"]
    /\ UNCHANGED <<memoryVars, threadVars, run_status, retry>>

LoopStep(l) ==
    PollStart(l) \/ PollRetrieve(l) \/ PollTest(l) \/ PollSleep(l) \/ PollList(l)

NextPoll ==
    \/ \E l \in Loops : RunAdvance(l)
    \/ \E l \in Loops : PollStart(l)
    \/ \E l \in Loops : PollRetrieve(l)
    \/ \E l \in Loops : PollTest(l)
    \/ \E l \in Loops : PollSleep(l)
    \/ \E l \in Loops : PollList(l)

SpecPoll == Init /\ [][NextPoll]_vars

\* The same with a scheduler that lets each loop and the service take the
\* steps they can take.
SpecPollFair ==
    /\ SpecPoll
    /\ \A l \in Loops : WF_vars(LoopStep(l)) /\ WF_vars(RunAdvance(l))

----------------------------------------------------------------------------
(* Properties. *)

Stamps(memories) == {memories[i].timestamp : i \in 1..Len(memories)}
Entries(memories) == {memories[i] : i \in 1..Len(memories)}

\* The layer called name, now and when the last call began.
Now(name) == Snapshot[name].memories
Was(name) == before[name].memories

\* The entry the last store or add constructed.
NewStamp == clock - 1
Holds(name) == NewStamp \in Stamps(Now(name))

\* C1: each of the three layers of a HierarchicalMemory holds at most as
\* many entries as its capacity, after any sequence of store calls.
C1_SizeWithinCapacity ==
    /\ working_memory.capacity = WorkingCapacity
    /\ short_term.capacity = ShortTermCapacity
    /\ long_term.capacity = LongTermCapacity
    /\ \A name \in AllLayers : Len(Now(name)) <= Snapshot[name].capacity

\* A store has just added to a layer that was full.
C1_Witness ==
    /\ outcome.op = "store"
    /\ Len(Was("long_term")) = LongTermCapacity
    /\ Holds("long_term")
    /\ Len(Now("long_term")) = LongTermCapacity

\* C2: store adds the new entry to exactly one layer, chosen by the
\* importance alone with strict comparisons: above 0.8 working memory,
\* above 0.5 and at most 0.8 short-term, at most 0.5 long-term; 0.81 lands
\* in working memory, 0.8 in short-term and 0.5 in long-term.
C2_StoreRoutesByImportance ==
    outcome.op = "store" =>
        LET i == outcome.importance
        IN  /\ Cardinality({name \in AllLayers : Holds(name)}) = 1
            /\ FloatGt(i, Fin(80)) => Holds("working_memory")
            /\ (FloatGt(i, Fin(50)) /\ FloatLe(i, Fin(80))) => Holds("short_term")
            /\ FloatLe(i, Fin(50)) => Holds("long_term")
            /\ i = Fin(81) => Holds("working_memory")
            /\ i = Fin(80) => Holds("short_term")
            /\ i = Fin(50) => Holds("long_term")

\* A store of importance 0.8, the boundary, has landed in short-term.
C2_Witness ==
    /\ outcome.op = "store"
    /\ outcome.importance = Fin(80)
    /\ Holds("short_term")
    /\ ~Holds("working_memory")

\* C8: a store whose importance is a NaN or an infinity fails with
\* InvalidInputError and leaves the three layers as they were.
C8_NonFiniteImportanceRejected ==
    (outcome.op = "store" /\ ~IsFinite(outcome.importance)) =>
        /\ outcome.raised = "InvalidInputError"
        /\ \A name \in AllLayers : Snapshot[name] = before[name]

\* The layer the thresholds select for an importance.
Tier(i) ==
    IF FloatGt(i, Fin(80)) THEN "working_memory"
    ELSE IF FloatGt(i, Fin(50)) THEN "short_term"
    ELSE "long_term"

\* C10: a store changes only the layer the thresholds select; an entry is
\* resident in at most one layer, once, and is never found in another layer
\* than the one it was placed in.
C10_StoreTouchesOneLayer ==
    /\ outcome.op = "store" =>
          \A name \in AllLayers \ {Tier(outcome.importance)} :
              Snapshot[name] = before[name]
    /\ \A name \in AllLayers : Cardinality(Stamps(Now(name))) = Len(Now(name))
    /\ \A n1, n2 \in AllLayers :
          n1 # n2 => Stamps(Now(n1)) \cap Stamps(Now(n2)) = {}
    /\ \A n1, n2 \in AllLayers :
          n1 # n2 => Stamps(Was(n1)) \cap Stamps(Now(n2)) = {}
    /\ \A name \in AllLayers :
          \A e \in Entries(Now(name)) : Tier(e.importance) = name

\* A store has evicted from and added to working memory while the two other
\* layers held entries.
C10_Witness ==
    /\ outcome.op = "store"
    /\ Holds("working_memory")
    /\ Len(Was("working_memory")) = WorkingCapacity
    /\ Was("short_term") # <<>>
    /\ Was("long_term") # <<>>

Rank(name) ==
    CASE name = "working_memory" -> 1 [] name = "short_term" -> 2
      [] name = "long_term" -> 3
LayerOf(e) == CHOOSE name \in AllLayers : e.timestamp \in Stamps(Now(name))

\* C7: retrieve_by returns the matching entries of working memory, then of
\* short-term, then of long-term, and within a layer in the order in which
\* they were inserted into it.
C7_RetrievalInInsertionOrder ==
    outcome.op = "retrieve_by" =>
        LET r == outcome.returned
        IN  /\ Stamps(r) =
                  UNION {{e.timestamp : e \in {x \in Entries(Was(name)) :
                                                  Matches(outcome.predicate, x)}} :
                         name \in outcome.layers}
            /\ \A i, j \in 1..Len(r) :
                  i < j =>
                    \/ Rank(LayerOf(r[i])) < Rank(LayerOf(r[j]))
                    \/ /\ LayerOf(r[i]) = LayerOf(r[j])
                       /\ r[i].timestamp < r[j].timestamp

\* The timestamps of a list increase from its head to its end.
OldestFirst(memories) ==
    \A i, j \in 1..Len(memories) :
        i < j => memories[i].timestamp < memories[j].timestamp

\* A store into a full layer has removed the head of its list, the oldest
\* resident, and appended the new entry; a store below capacity only appends.
FifoStep ==
    outcome.op = "store" =>
        \A name \in AllLayers :
            Holds(name) =>
                LET new == Now(name)[Len(Now(name))]
                IN  /\ new.timestamp = NewStamp
                    /\ Now(name) =
                          IF Len(Was(name)) = before[name].capacity
                          THEN Append(Tail(Was(name)), new)
                          ELSE Append(Was(name), new)

\* C12: with the notebook's operations alone every resident entry has
\* access_count 0 and scores 0 whatever its importance, and a store into a
\* full layer evicts the oldest resident: each layer is a FIFO queue bounded
\* by its capacity.
C12_ZeroScoreFifo ==
    /\ \A name \in AllLayers : \A e \in Entries(Now(name)) :
          e.access_count = 0 /\ Score(e) = Fin(0)
    /\ \A name \in AllLayers : OldestFirst(Now(name))
    /\ FifoStep

\* The same with scores that are 0 or a NaN: no resident entry scores less
\* than another, and each layer is a FIFO queue.
C12_NoLowerScoreFifo ==
    /\ \A name \in AllLayers : \A e, f \in Entries(Now(name)) :
          e.access_count = 0 /\ ~FloatLt(Score(e), Score(f))
    /\ \A name \in AllLayers : OldestFirst(Now(name))
    /\ FifoStep

----------------------------------------------------------------------------
(* Properties of a MemoryLayer used on its own. *)

LNow == layer.memories
LWas == before.layer.memories

\* The entries the last add removed from the layer.
Evicted == {e \in Entries(LWas) : e.timestamp \notin Stamps(LNow)}

\* C3: an eviction removes an entry whose score importance * access_count
\* is the lowest among the entries resident at that moment: no resident
\* entry scores less than the removed one.
C3_EvictsLowestScore ==
    (outcome.op = "add" /\ Evicted # {}) =>
        \A r \in Evicted : \A e \in Entries(LWas) : ~FloatLt(Score(e), Score(r))

\* The same for a layer whose entries all have a finite importance.
C3_FiniteEvictsLowestScore ==
    (outcome.op = "add" /\ Evicted # {}
        /\ \A e \in Entries(LWas) : IsFinite(e.importance)) =>
        \A r \in Evicted : \A e \in Entries(LWas) : ~FloatLt(Score(e), Score(r))

\* C4: among resident entries of finite importance that tie for the lowest
\* score, an eviction removes the one inserted earliest, also after earlier
\* evictions in the layer.
C4_TieEvictsEarliest ==
    (outcome.op = "add" /\ Evicted # {}
        /\ \A e \in Entries(LWas) : IsFinite(e.importance)) =>
        \A r \in Evicted : \A e \in Entries(LWas) :
            FloatEq(Score(e), Score(r)) => r.timestamp <= e.timestamp

\* C5: add on a layer of positive capacity succeeds and leaves the new
\* entry last; on a full layer exactly one resident entry is removed and the
\* size stays at the capacity, otherwise none is removed and the size grows
\* by 1.
C5_AddOnPositiveCapacity ==
    (outcome.op = "add" /\ before.layer.capacity > 0) =>
        /\ outcome.raised = "none"
        /\ LNow # <<>>
        /\ LNow[Len(LNow)].timestamp = NewStamp
        /\ LNow[Len(LNow)].importance = outcome.importance
        /\ NewStamp \notin Stamps(LWas)
        /\ Entries(SubSeq(LNow, 1, Len(LNow) - 1)) \subseteq Entries(LWas)
        /\ IF Len(LWas) = before.layer.capacity
           THEN /\ Len(LNow) = before.layer.capacity
                /\ Cardinality(Evicted) = 1
           ELSE /\ Len(LNow) = Len(LWas) + 1
                /\ Evicted = {}

\* An add on a full layer of the largest capacity has succeeded.
C5_Witness ==
    /\ outcome.op = "add"
    /\ before.layer.capacity = MaxCapacity
    /\ Len(LWas) = MaxCapacity
    /\ Cardinality(Evicted) = 1
    /\ Len(LNow) = MaxCapacity

\* C9: no MemoryLayer exists with a capacity of 0 or less, and no add runs
\* on such a layer.
C9_NonPositiveCapacityRejected ==
    /\ layer.constructed => layer.capacity > 0
    /\ outcome.op = "add" => before.layer.capacity > 0

----------------------------------------------------------------------------
(* Properties of create_thread_with_retry. *)

\* The calls of the remote thread creation that raised a caught exception.
Failed(log) == {i \in 1..Len(log) : log[i] \in Caught}

\* C14: create_thread_with_retry(max_retries = n) with n >= 1 calls the
\* remote creation at most n times; it returns the result of the first
\* successful call and makes no call after it; when all n calls fail it
\* re-raises the exception of the n-th; and it sleeps 2 ** attempt seconds
\* after each failed call that another call follows, never after the n-th
\* failure.
C14_RetryAtMostNTimes ==
    (retry.pc # "idle" /\ retry.max_retries >= 1) =>
        LET n == retry.max_retries
            log == retry.log
            done == retry.pc \in {"returned", "raised"}
        IN  /\ Len(log) <= n
            /\ \A i \in 1..(Len(log) - 1) : log[i] \in Caught
            /\ retry.pc = "returned" =>
                  /\ log # <<>> /\ log[Len(log)] = "ok"
                  /\ retry.result = [kind |-> "return", of |-> Len(log)]
            /\ (done /\ Cardinality(Failed(log)) = n) =>
                  /\ retry.pc = "raised"
                  /\ retry.result = [kind |-> "raise", of |-> n]
            /\ Cardinality(Failed(log)) = n => retry.pc \in {"except", "raised"}
            /\ retry.slept = [i \in 1..Len(retry.slept) |-> 2 ^ (i - 1)]
            /\ Len(retry.slept) =
                  IF retry.pc \in {"for", "create"} THEN Len(log) ELSE Len(log) - 1

\* All calls of the largest max_retries have failed and the last exception
\* has been re-raised, after a sleep between each two calls.
C14_Witness ==
    /\ retry.pc = "raised"
    /\ retry.max_retries = MaxRetries
    /\ Cardinality(Failed(retry.log)) = MaxRetries
    /\ Len(retry.slept) = MaxRetries - 1
    /\ retry.result.of = MaxRetries

\* A call has returned the thread of its second attempt, after one sleep.
C14_WitnessReturn ==
    /\ retry.pc = "returned"
    /\ retry.log = <<"APIError", "ok">>
    /\ retry.slept = <<1>>

----------------------------------------------------------------------------
(* Properties of the run-polling loops. *)

\* What the claim asks of loop l: it sleeps, to poll again, only after it
\* saw queued or running; it lists and returns the messages after it saw
\* completed; once it has tested a failed status it has raised an error.
PollsUntilTerminal(l) ==
    /\ poll[l].pc = "sleep" => poll[l].seen \in {"queued", "running"}
    /\ poll[l].pc \in {"list", "returned"} => poll[l].seen = "completed"
    /\ poll[l].pc = "returned" => poll[l].result = "messages"
    /\ (poll[l].seen = "failed" /\ poll[l].pc # "test") =>
          (poll[l].pc = "raised" /\ poll[l].result = "AssistantError")

\* C13: each of the two run-polling loops stops once it has polled a
\* terminal status: it returns the messages on completed, signals an error
\* on failed, and polls again only while the status is queued or running.
C13_LoopsStopAtTerminalStatus == \A l \in Loops : PollsUntilTerminal(l)

\* The same for wait_for_response alone.
C13_WaitForResponseStops == PollsUntilTerminal("wait_for_response")

\* Under the fair scheduler, wait_for_response ends once started.
C13_WaitForResponseEnds ==
    (poll["wait_for_response"].pc # "idle")
        ~> (poll["wait_for_response"].pc \in {"returned", "raised"})

\* Under the fair scheduler, manage_conversation ends once started.
C13_ManageConversationEnds ==
    (poll["manage_conversation"].pc # "idle")
        ~> (poll["manage_conversation"].pc \in {"returned", "raised"})

----------------------------------------------------------------------------
(* Properties of the threads on one HierarchicalMemory. *)

C11_WitnessTwoLayers ==
    /\ thread["t1"].pc = "touch"
    /\ thread["t1"].layer = "long_term"
    /\ thread["t1"].seen # <<>>
    /\ thread["t2"].pc = "append"
    /\ thread["t2"].layer = "working_memory"

====
